---- MODULE Spec2Model ----
(***************************************************************************)
(* Model of preprocess_split_main.cpp (mlpack "preprocess_split" binding). *)
(* mlpackMain() is modelled as a sequence of steps, one per block of the   *)
(* function; data::Split and math::RandomSeed live outside this file and   *)
(* are modelled from their documented contract.                            *)
(***************************************************************************)
EXTENDS Integers, Sequences, FiniteSets, TLC

VARIABLES pc, hasParam, testRatio, seedParam, input, input_labels, now,
          rng, warnings, splitCalls, value, training, test,
          training_labels, test_labels, error, run, prev, atStart

vars == <<pc, hasParam, testRatio, seedParam, input, input_labels, now,
          rng, warnings, splitCalls, value, training, test,
          training_labels, test_labels, error, run, prev, atStart>>

(* ------------------------------ bounds --------------------------------- *)
MaxN == 3
MaxLabels == 3
MaxSeed == 5
NegSeeds == 1
MaxTime == 2

(* --------------------------- parameters -------------------------------- *)
\* Parameters whose presence the program asks for with CLI::HasParam
\* ("input" is required; "seed" is only ever read with CLI::GetParam, so an
\* unset seed is the seed 0).
OptionalParams ==
  {"training", "test", "input_labels", "training_labels", "test_labels",
   "test_ratio"}

\* A ratio is an exact fraction <<numerator, denominator>>.
DefaultTestRatio == <<1, 5>>

TestRatios ==
  {<<0 - 1, 4>>, <<0, 1>>, <<1, 2>>, <<1, 1>>, <<3, 2>>}

Seeds == (0 - NegSeeds)..MaxSeed
Times == 1..MaxTime
Labels == {0, 1}

AllPoints == <<"A", "B", "C", "D", "E", "F", "G", "H">>
Dataset(n) == SubSeq(AllPoints, 1, n)

(* ----------------------- size_t and the generator ---------------------- *)
\* A size_t is four 16-bit limbs, most significant first.
LimbBase == 2^16
SignLimb(i) == IF i < 0 THEN LimbBase - 1 ELSE 0

ToSizeTOfMagnitude(i) ==
  LET m == IF i < 0 THEN 0 - i ELSE i
  IN  <<0, 0, (m \div LimbBase) % LimbBase, m % LimbBase>>

\* (size_t) i for a 32-bit int or a non-negative time_t: two's complement,
\* sign-extended to 64 bits.
ToSizeT(i) ==
  <<SignLimb(i), SignLimb(i), (i \div LimbBase) % LimbBase, i % LimbBase>>

\* The size_t s holds the mathematical integer i.
HoldsInteger(s, i) ==
  /\ i >= 0
  /\ s = <<0, 0, (i \div LimbBase) % LimbBase, i % LimbBase>>

SeedFromTime(seed, t) == [src |-> "time", seed |-> ToSizeT(t)]

\* Lines 78-81: seed 0 means std::time(NULL), anything else is cast.
SeedChoice(seed, t) ==
  IF seed = 0
    THEN [src |-> "time", seed |-> ToSizeT(t)]
    ELSE [src |-> "param", seed |-> ToSizeT(seed)]

DefaultRng == [src |-> "default", seed |-> ToSizeT(0)]

RECURSIVE Factorial(_)
Factorial(n) == IF n <= 1 THEN 1 ELSE n * Factorial(n - 1)

RemoveAt(s, i) == SubSeq(s, 1, i - 1) \o SubSeq(s, i + 1, Len(s))

\* The low 32 bits of the seed, reduced modulo m.
SeedMod(s, m) == ((s[3] % m) * (LimbBase % m) + s[4]) % m

RECURSIVE Decode(_, _)
Decode(k, avail) ==
  IF avail = <<>> THEN <<>>
  ELSE LET f == Factorial(Len(avail) - 1)
           i == (k \div f) + 1
       IN  <<avail[i]>> \o Decode(k % f, RemoveAt(avail, i))

\* The permutation of 1..n the generator yields once seeded with s: a
\* function of the seed and n only.
Shuffle(s, n) == Decode(SeedMod(s, Factorial(n)), [i \in 1..n |-> i])

(* ------------------------------ Split ---------------------------------- *)
TestSizeRounded(n, r) == (2 * n * r[1] + r[2]) \div (2 * r[2])

\* testCount: the product n * ratio truncated toward zero.
TestSize(n, r) == (n * r[1]) \div r[2]

TakeOrdered(s, order, from, count) ==
  [i \in 1..count |-> s[order[from + i]]]

NoValue ==
  [ok |-> FALSE, train |-> <<>>, test |-> <<>>,
   trainLabels |-> <<>>, testLabels |-> <<>>]

\* data::Split(data, testRatio): (train, test).
Split(data, r, order) ==
  LET n == Len(data)
      testSize == TestSize(n, r)
      trainSize == n - testSize
  IN  [ok |-> TRUE,
       train |-> TakeOrdered(data, order, 0, trainSize),
       test |-> TakeOrdered(data, order, trainSize, testSize),
       trainLabels |-> <<>>, testLabels |-> <<>>]

\* data::Split(data, labels, testRatio): (train, test, trainLabels,
\* testLabels); a label vector of the wrong length is a shape mismatch.
SplitLabels(data, labels, r, order) ==
  IF Len(labels) # Len(data) THEN NoValue
  ELSE LET n == Len(data)
           testSize == TestSize(n, r)
           trainSize == n - testSize
           base == Split(data, r, order)
       IN  [base EXCEPT
              !.trainLabels = TakeOrdered(labels, order, 0, trainSize),
              !.testLabels = TakeOrdered(labels, order, trainSize, testSize)]

(* ------------------------------ state ---------------------------------- *)
Unassigned == [set |-> FALSE, val |-> <<>>]
Assigned(v) == [set |-> TRUE, val |-> v]

Outputs ==
  [training |-> training, test |-> test,
   training_labels |-> training_labels, test_labels |-> test_labels]

NoOutputs ==
  [training |-> Unassigned, test |-> Unassigned,
   training_labels |-> Unassigned, test_labels |-> Unassigned]

\* What a finished invocation leaves behind: its outputs and its clock.
Finished == [outputs |-> Outputs, now |-> now]

\* What an invocation finds when it starts.
Entry == [input |-> input, input_labels |-> input_labels, rng |-> DefaultRng]

HasParam(p) == p \in hasParam

LabelSeqs == UNION {[1..m -> Labels] : m \in 0..MaxLabels}

Init ==
  /\ pc = "seed"
  /\ hasParam \in SUBSET OptionalParams
  /\ testRatio \in
       (IF "test_ratio" \in hasParam THEN TestRatios ELSE {DefaultTestRatio})
  /\ seedParam \in Seeds
  /\ input \in {Dataset(n) : n \in 0..MaxN}
  /\ input_labels \in
       (IF "input_labels" \in hasParam THEN LabelSeqs ELSE {<<>>})
  /\ now = 1
  /\ rng = DefaultRng
  /\ warnings = {}
  /\ splitCalls = 0
  /\ value = NoValue
  /\ training = Unassigned
  /\ test = Unassigned
  /\ training_labels = Unassigned
  /\ test_labels = Unassigned
  /\ error = "none"
  /\ run = 1
  /\ prev = [outputs |-> NoOutputs, now |-> now]
  /\ atStart = Entry

inputs == <<hasParam, testRatio, seedParam, input, input_labels>>
outs == <<training, test, training_labels, test_labels>>

(* ------------------------------ steps ---------------------------------- *)
\* Lines 78-81.
SeedGenerator ==
  /\ pc = "seed"
  /\ rng' = SeedChoice(seedParam, now)
  /\ pc' = "warn"
  /\ UNCHANGED <<inputs, outs, now, warnings, splitCalls, value, error,
                 run, prev, atStart>>

OutputWarnings ==
  (IF ~HasParam("training") THEN {"no training"} ELSE {})
  \cup (IF ~HasParam("test") THEN {"no test"} ELSE {})
  \cup (IF HasParam("input_labels")
          THEN (IF ~HasParam("training_labels")
                  THEN {"no training_labels"} ELSE {})
               \cup (IF ~HasParam("test_labels")
                       THEN {"no test_labels"} ELSE {})
          ELSE (IF HasParam("training_labels")
                  THEN {"training_labels ignored"} ELSE {})
               \cup (IF HasParam("test_labels")
                       THEN {"test_labels ignored"} ELSE {}))

\* Lines 83-113: warnings only, never fatal.
CheckOutputParams ==
  /\ pc = "warn"
  /\ warnings' = warnings \cup OutputWarnings
  /\ pc' = "ratio"
  /\ UNCHANGED <<inputs, outs, now, rng, splitCalls, value, error, run, prev, atStart>>

RatioFatalLowOnly(passed, r) == passed /\ r[1] < 0

RatioFatalStrict(passed, r) == passed /\ (r[1] <= 0 \/ r[1] >= r[2])

\* Line 116-118: the range test, made only when test_ratio was passed.
RatioFatal(passed, r) == passed /\ (r[1] < 0 \/ r[1] > r[2])

CheckTestRatioNoThrow ==
  /\ pc = "ratio"
  /\ pc' = "split"
  /\ IF RatioFatal(HasParam("test_ratio"), testRatio)
       THEN error' = "ConfigurationError" /\ UNCHANGED warnings
       ELSE /\ warnings' =
                 (IF HasParam("test_ratio") THEN warnings
                  ELSE warnings \cup {"test_ratio defaulted"})
            /\ UNCHANGED error
  /\ UNCHANGED <<inputs, outs, now, rng, splitCalls, value, run, prev, atStart>>

\* Lines 115-128: Log::Fatal throws, ending the run.
CheckTestRatio ==
  /\ pc = "ratio"
  /\ IF RatioFatal(HasParam("test_ratio"), testRatio)
       THEN /\ pc' = "fatal"
            /\ error' = "ConfigurationError"
            /\ UNCHANGED warnings
       ELSE /\ pc' = "split"
            /\ warnings' =
                 (IF HasParam("test_ratio") THEN warnings
                  ELSE warnings \cup {"test_ratio defaulted"})
            /\ UNCHANGED error
  /\ UNCHANGED <<inputs, outs, now, rng, splitCalls, value, run, prev, atStart>>

NeverLabels(params) == FALSE

\* Line 134: the labelled path is taken when input_labels was passed.
UseLabels(params) == "input_labels" \in params

\* Line 138: labels.row(0).
LabelsRow(labels) == labels

\* Lines 136-144.
SplitWithLabels ==
  /\ pc = "split"
  /\ UseLabels(hasParam)
  /\ LET res == SplitLabels(input, LabelsRow(input_labels), testRatio,
                            Shuffle(rng.seed, Len(input)))
     IN  /\ splitCalls' = splitCalls + 1
         /\ IF res.ok
              THEN /\ value' = res
                   /\ pc' = "save"
                   /\ UNCHANGED error
              ELSE /\ pc' = "fatal"
                   /\ error' = "ShapeMismatchError"
                   /\ UNCHANGED value
  /\ UNCHANGED <<inputs, outs, now, rng, warnings, run, prev, atStart>>

\* Lines 159-163.
SplitNoLabels ==
  /\ pc = "split"
  /\ ~UseLabels(hasParam)
  /\ value' = Split(input, testRatio, Shuffle(rng.seed, Len(input)))
  /\ splitCalls' = splitCalls + 1
  /\ pc' = "save"
  /\ UNCHANGED <<inputs, outs, now, rng, warnings, error, run, prev, atStart>>

\* std::get<k>(value) as used on lines 147-155 and 166-168.
Get1AsTrain(v) == v.train
Get0AsTest(v) == v.test
Get3AsTrainLabels(v) == v.trainLabels

Get0(v) == v.train
Get1(v) == v.test
Get2(v) == v.trainLabels
Get3(v) == v.testLabels

SaveAlways(params, name, old, v) == Assigned(v)

\* "if (CLI::HasParam(name)) CLI::GetParam(name) = std::move(v)".
SaveIf(params, name, old, v) == IF name \in params THEN Assigned(v) ELSE old

\* Lines 146-155.
SaveLabelled ==
  /\ pc = "save"
  /\ UseLabels(hasParam)
  /\ training' = SaveIf(hasParam, "training", training, Get0(value))
  /\ test' = SaveIf(hasParam, "test", test, Get1(value))
  /\ training_labels' =
       SaveIf(hasParam, "training_labels", training_labels, Get2(value))
  /\ test_labels' =
       SaveIf(hasParam, "test_labels", test_labels, Get3(value))
  /\ pc' = "done"
  /\ UNCHANGED <<inputs, now, rng, warnings, splitCalls, value, error,
                 run, prev, atStart>>

\* Lines 165-168.
SaveUnlabelled ==
  /\ pc = "save"
  /\ ~UseLabels(hasParam)
  /\ training' = SaveIf(hasParam, "training", training, Get0(value))
  /\ test' = SaveIf(hasParam, "test", test, Get1(value))
  /\ pc' = "done"
  /\ UNCHANGED <<inputs, training_labels, test_labels, now, rng, warnings,
                 splitCalls, value, error, run, prev, atStart>>

\* The program is invoked a second time with the same parameters, in a
\* fresh process and at any time; the first invocation ran at time 1.
Rerun ==
  /\ pc \in {"done", "fatal"}
  /\ run = 1
  /\ run' = 2
  /\ prev' = Finished
  /\ now' \in Times
  /\ pc' = "seed"
  /\ rng' = DefaultRng
  /\ atStart' = Entry
  /\ warnings' = {}
  /\ splitCalls' = 0
  /\ value' = NoValue
  /\ training' = Unassigned
  /\ test' = Unassigned
  /\ training_labels' = Unassigned
  /\ test_labels' = Unassigned
  /\ error' = "none"
  /\ UNCHANGED inputs

Next ==
  \/ SeedGenerator
  \/ CheckOutputParams
  \/ CheckTestRatio
  \/ SplitWithLabels
  \/ SplitNoLabels
  \/ SaveLabelled
  \/ SaveUnlabelled
  \/ Rerun

Spec == Init /\ [][Next]_vars

(* ------------------------------ claims --------------------------------- *)
N == Len(input)
Order == Shuffle(rng.seed, N)
RatioOutOfRange ==
  HasParam("test_ratio") /\ (testRatio[1] < 0 \/ testRatio[1] > testRatio[2])
LabelsMismatch == HasParam("input_labels") /\ Len(input_labels) # N
PastRatioCheck == pc \in {"split", "save", "done", "fatal"}
AllOutputsRequested ==
  {"training", "test", "training_labels", "test_labels"} \subseteq hasParam
IndexOf(point) == CHOOSE i \in 1..N : input[i] = point
Count(s, x) == Cardinality({i \in 1..Len(s) : s[i] = x})
Reordered(s, from, count) == [i \in 1..count |-> s[Order[from + i]]]

\* C1: once past the ratio check with a passed test_ratio below 0 or above
\* 1, the run has ended in a fatal error, data::Split was never called and
\* none of the four output parameters is assigned.
C1_InvalidRatioFatal ==
  (RatioOutOfRange /\ PastRatioCheck) =>
     /\ pc = "fatal"
     /\ error = "ConfigurationError"
     /\ splitCalls = 0
     /\ value = NoValue
     /\ Outputs = NoOutputs

C1_Witness ==
  /\ pc = "fatal"
  /\ error = "ConfigurationError"
  /\ testRatio[1] > testRatio[2]
  /\ AllOutputsRequested
  /\ HasParam("input_labels")
  /\ N = MaxN

\* C2: on a finished run that saved both halves, the sizes of training and
\* test add up to the point count and every input point occurs exactly once
\* in training followed by test.
C2_Partition ==
  (pc = "done" /\ training.set /\ test.set) =>
     /\ Len(training.val) + Len(test.val) = N
     /\ \A i \in 1..N : Count(training.val \o test.val, input[i]) = 1

C2_Witness ==
  /\ pc = "done"
  /\ training.set /\ test.set
  /\ N = MaxN
  /\ Len(training.val) > 0 /\ Len(test.val) > 0
  /\ training.val \o test.val # input

\* C3: on a finished labelled run, training_labels and test_labels are as
\* long as training and test, and the label at position j is the input label
\* of the point saved at position j.
C3_LabelAlignment ==
  (pc = "done" /\ HasParam("input_labels")) =>
     /\ (training.set /\ training_labels.set) =>
          /\ Len(training_labels.val) = Len(training.val)
          /\ \A j \in 1..Len(training.val) :
               training_labels.val[j] = input_labels[IndexOf(training.val[j])]
     /\ (test.set /\ test_labels.set) =>
          /\ Len(test_labels.val) = Len(test.val)
          /\ \A j \in 1..Len(test.val) :
               test_labels.val[j] = input_labels[IndexOf(test.val[j])]

C3_Witness ==
  /\ pc = "done"
  /\ HasParam("input_labels")
  /\ AllOutputsRequested
  /\ N = MaxN
  /\ Len(training.val) > 0 /\ Len(test.val) > 0
  /\ training.val \o test.val # input
  /\ \E i, j \in 1..N : input_labels[i] # input_labels[j]

\* C4 as stated: a second invocation with the same inputs and any explicitly
\* passed seed leaves the same four outputs as the first.
C4_AnyPassedSeedDeterministic ==
  (run = 2 /\ pc \in {"done", "fatal"} /\ seedParam \in Seeds) =>
     Outputs = prev.outputs

\* C4 amended: a second invocation with the same inputs and the same passed
\* non-zero seed leaves the same four outputs as the first, whatever the
\* time of either run.
C4_NonZeroSeedDeterministic ==
  (run = 2 /\ pc \in {"done", "fatal"} /\ seedParam # 0) =>
     Outputs = prev.outputs

C4_Witness ==
  /\ run = 2
  /\ pc = "done"
  /\ seedParam # 0
  /\ now # prev.now
  /\ N = MaxN
  /\ training.set /\ test.set
  /\ training.val \o test.val # input

\* C5 as stated: the generator is seeded from the time exactly when seed is
\* 0, and for any other seed it holds that integer itself.
C5_SeededWithIntegerItself ==
  (pc # "seed") =>
     /\ (rng.src = "time") <=> (seedParam = 0)
     /\ (seedParam # 0) => HoldsInteger(rng.seed, seedParam)

\* C5 amended: the generator is seeded from the time exactly when seed is 0;
\* for any other seed it holds the seed converted to size_t (a negative seed
\* wraps modulo 2^64), and no other non-zero seed value converts to the same
\* generator seed.
C5_SeededWithConvertedSeed ==
  (pc # "seed") =>
     /\ (rng.src = "time") <=> (seedParam = 0)
     /\ (seedParam = 0) => HoldsInteger(rng.seed, now)
     /\ (seedParam > 0) => HoldsInteger(rng.seed, seedParam)
     /\ (seedParam < 0) =>
          /\ rng.seed[1] = LimbBase - 1 /\ rng.seed[2] = LimbBase - 1
          /\ rng.seed[3] = LimbBase - 1
          /\ rng.seed[4] = LimbBase + seedParam
     /\ (seedParam # 0) =>
          \A s \in Seeds \ {0, seedParam} : ToSizeT(s) # rng.seed

C5_Witness ==
  /\ pc = "done"
  /\ seedParam < 0
  /\ rng.src = "param"

\* C6 as stated: a label vector whose length differs from the point count
\* ends the run in a ShapeMismatchError with no output assigned.
C6_MismatchIsShapeError ==
  (LabelsMismatch /\ pc \in {"save", "done", "fatal"}) =>
     /\ pc = "fatal"
     /\ error = "ShapeMismatchError"
     /\ Outputs = NoOutputs

\* C6 amended: a label vector whose length differs from the point count ends
\* the run in a fatal error with no output assigned: a ShapeMismatchError
\* when the ratio check passed, the ConfigurationError of the ratio check
\* otherwise.
C6_MismatchIsFatal ==
  (LabelsMismatch /\ pc \in {"save", "done", "fatal"}) =>
     /\ pc = "fatal"
     /\ error = (IF RatioOutOfRange THEN "ConfigurationError"
                 ELSE "ShapeMismatchError")
     /\ Outputs = NoOutputs
     /\ value = NoValue

C6_Witness ==
  /\ pc = "fatal"
  /\ error = "ShapeMismatchError"
  /\ Len(input_labels) < N
  /\ Len(input_labels) > 0
  /\ AllOutputsRequested
  /\ splitCalls = 1

\* C7 as stated: with testCount = round(r * N), training is the first
\* N - testCount points of the shuffled input and test the rest, labels
\* likewise.
C7_CutAtRounded ==
  (pc = "done") =>
     LET testCount == TestSizeRounded(N, testRatio)
         trainCount == N - testCount
     IN  /\ training.set => training.val = Reordered(input, 0, trainCount)
         /\ test.set => test.val = Reordered(input, trainCount, testCount)

\* C7 amended: with testCount = r * N truncated toward zero, training is
\* the first N - testCount points of the shuffled input and test the
\* remaining testCount, in shuffled order; the labels are cut the same way.
C7_CutAtTruncated ==
  (pc = "done") =>
     LET testCount == (N * testRatio[1]) \div testRatio[2]
         trainCount == N - testCount
     IN  /\ training.set => training.val = Reordered(input, 0, trainCount)
         /\ test.set => test.val = Reordered(input, trainCount, testCount)
         /\ training_labels.set =>
              training_labels.val = Reordered(input_labels, 0, trainCount)
         /\ test_labels.set =>
              test_labels.val = Reordered(input_labels, trainCount, testCount)

C7_Witness ==
  /\ pc = "done"
  /\ N = 3
  /\ testRatio = <<1, 2>>
  /\ Order = <<3, 1, 2>>
  /\ AllOutputsRequested /\ HasParam("input_labels")
  /\ training.val = <<"C", "A">>
  /\ test.val = <<"B">>
  /\ input_labels = <<0, 1, 0>>
  /\ training_labels.val = <<0, 0>>
  /\ test_labels.val = <<1>>

\* C8: a passed ratio of 0 or 1, or an empty dataset with a ratio in [0,1],
\* is never rejected; unless the label vector has the wrong length the run
\* finishes, with an empty test set and all N shuffled points in training
\* for ratio 0, an empty training set and all N points in test for ratio 1,
\* and both sets empty for an empty dataset.
C8_BoundaryRatiosAccepted ==
  LET zero == HasParam("test_ratio") /\ testRatio[1] = 0
      one == HasParam("test_ratio") /\ testRatio[1] = testRatio[2]
      empty == N = 0 /\ ~RatioOutOfRange
  IN  /\ ((zero \/ one \/ empty) /\ PastRatioCheck) =>
            /\ error # "ConfigurationError"
            /\ (~LabelsMismatch) => pc # "fatal"
      /\ (zero /\ pc = "done") =>
            /\ value.test = <<>>
            /\ value.train = Reordered(input, 0, N)
            /\ HasParam("test") => test = Assigned(<<>>)
            /\ HasParam("training") => Len(training.val) = N
      /\ (one /\ pc = "done") =>
            /\ value.train = <<>>
            /\ value.test = Reordered(input, 0, N)
            /\ HasParam("training") => training = Assigned(<<>>)
            /\ HasParam("test") => Len(test.val) = N
      /\ (empty /\ pc = "done") =>
            /\ value.train = <<>> /\ value.test = <<>>

C8_Witness ==
  /\ pc = "done"
  /\ HasParam("test_ratio") /\ testRatio = <<1, 1>>
  /\ N = MaxN
  /\ training = Assigned(<<>>)
  /\ Len(test.val) = N

\* C9: on a finished run training and test are assigned exactly when their
\* flag is set, the label outputs exactly when their flag is set and
\* input_labels was passed; a label-output flag without input_labels only
\* warns, and a run is fatal only for a bad ratio or a bad label vector, so
\* the split is performed even when no output is requested.
C9_AssignedIffRequested ==
  /\ (pc = "done") =>
        /\ training.set <=> HasParam("training")
        /\ test.set <=> HasParam("test")
        /\ training_labels.set <=>
             (HasParam("training_labels") /\ HasParam("input_labels"))
        /\ test_labels.set <=>
             (HasParam("test_labels") /\ HasParam("input_labels"))
        /\ splitCalls = 1
  /\ (pc \notin {"seed", "warn"} /\ ~HasParam("input_labels")) =>
        /\ HasParam("training_labels") <=>
             ("training_labels ignored" \in warnings)
        /\ HasParam("test_labels") <=> ("test_labels ignored" \in warnings)
  /\ (pc = "fatal") => (RatioOutOfRange \/ LabelsMismatch)

C9_Witness ==
  /\ pc = "done"
  /\ ~HasParam("input_labels")
  /\ HasParam("training_labels") /\ HasParam("test_labels")
  /\ ~HasParam("training") /\ ~HasParam("test")
  /\ Outputs = NoOutputs
  /\ splitCalls = 1
  /\ N = MaxN

\* C10 as stated: when the ratio check raises its fatal error, the inputs,
\* the outputs and the generator state are what they were at the start.
C10_NothingChangedAtFatal ==
  (pc = "fatal" /\ error = "ConfigurationError") =>
     /\ input = atStart.input
     /\ input_labels = atStart.input_labels
     /\ Outputs = NoOutputs
     /\ rng = atStart.rng

\* C10 amended: a ratio outside [0,1] ends the run at the ratio check with
\* the inputs unchanged, no output assigned and no split computed; the
\* generator, seeded before the check, is no longer in its starting state.
C10_OnlyGeneratorChangedAtFatal ==
  (RatioOutOfRange /\ PastRatioCheck) =>
     /\ pc = "fatal"
     /\ input = atStart.input
     /\ input_labels = atStart.input_labels
     /\ Outputs = NoOutputs
     /\ splitCalls = 0
     /\ rng # atStart.rng
     /\ rng.src \in {"time", "param"}

C10_Witness ==
  /\ pc = "fatal"
  /\ error = "ConfigurationError"
  /\ testRatio[1] < 0
  /\ rng.src = "param"
  /\ N > 0

====
